---- MODULE Spec2Model ----
(***************************************************************************)
(* Model of scripts/match_symbols.py: the relocation index (RelocationMap), *)
(* the per-symbol mask and wildcard pattern of match_symbol_reloc, the      *)
(* haystack search, and the per-object symbol loop of match_elf.            *)
(*                                                                          *)
(* Python lists are 0-based; sequences here are 1-based.  An operator that  *)
(* takes or returns a Python index keeps the 0-based value and shifts only  *)
(* where it touches a sequence.                                             *)
(***************************************************************************)
EXTENDS Integers, Sequences, FiniteSets, TLC

VARIABLES
    haystack,       \* the memory dump, after truncation to haystack_size
    haystack_base,  \* args.haystack_base
    min_match,      \* args.min_match
    no_reloc,       \* args.no_reloc
    match,          \* args.match
    elf,            \* the parsed object: has_text, text, symtab, textrela
    pc,             \* position in match_elf: start, loop, done, raised
    relas_map,      \* the RelocationMap built by match_elf
    idx,            \* 1-based position of the symbol loop of match_elf
    output,         \* the status lines printed so far, in order
    mask,           \* mask of the last match_symbol_reloc call that built one
    regex,          \* pattern of the last match_symbol_reloc call that built one
    sliced,         \* slice_range result of that call
    last_sym        \* 1-based position of the symbol of that call, 0 before any

vars == << haystack, haystack_base, min_match, no_reloc, match, elf, pc,
           relas_map, idx, output, mask, regex, sliced, last_sym >>

args == << haystack, haystack_base, min_match, no_reloc, match, elf >>

(***************************************************************************)
(* Bounds of the model.                                                     *)
(***************************************************************************)
MaxRelas == 4      \* longest relocation table
MaxOff == 6        \* largest relocation offset
MaxHay == 5        \* longest haystack of the run specification
BodySize == 40     \* size of the function body of the round-trip scenario
MaxPad == 2        \* longest haystack padding before the embedded body

\* args.min_match and args.match defaults
DefaultMinMatch == 24
DefaultMatch == 32

\* Values of args.haystack_base the inputs are drawn from (the default,
\* 0x80000000, is beyond the integers the checker represents).
HaystackBases == {0, 32768}

\* Byte values the inputs are drawn from: 0x0A (newline) and 0x41.
ByteVals == {10, 65}

RECURSIVE SeqsUpTo(_, _)
SeqsUpTo(S, n) ==
    IF n = 0 THEN {<< >>}
    ELSE LET shorter == SeqsUpTo(S, n - 1)
         IN  shorter \cup {Append(s, x) : s \in {t \in shorter : Len(t) = n - 1}, x \in S}

(***************************************************************************)
(* Python builtins used by the script.                                      *)
(***************************************************************************)
\* list slicing lst[start:stop] index adjustment (step 1): 0-based bounds.
SliceStart(len, start) ==
    IF start < 0 THEN (IF start + len < 0 THEN 0 ELSE start + len)
    ELSE (IF start > len THEN len ELSE start)

SliceStop(len, start, stop) ==
    LET s == SliceStart(len, start)
        e == SliceStart(len, stop)
    IN  IF e < s THEN s ELSE e

\* lst[start:stop]
GetSlice(lst, start, stop) ==
    SubSeq(lst, SliceStart(Len(lst), start) + 1, SliceStop(Len(lst), start, stop))

\* lst[start:stop] = vals : the slice is replaced by vals, whatever its length.
SetSlice(lst, start, stop, vals) ==
    LET s == SliceStart(Len(lst), start)
        e == SliceStop(Len(lst), start, stop)
    IN  SubSeq(lst, 1, s) \o vals \o SubSeq(lst, e + 1, Len(lst))

\* bisect.bisect_left(a, x) with lo = 0, hi = len(a); returns a 0-based index.
RECURSIVE BisectLoop(_, _, _, _)
BisectLoop(a, x, lo, hi) ==
    IF lo < hi
    THEN LET mid == (lo + hi) \div 2
         IN  IF a[mid + 1] < x THEN BisectLoop(a, x, mid + 1, hi)
                               ELSE BisectLoop(a, x, lo, mid)
    ELSE lo

\* bisect_right in place of bisect_left: the comparison is a[mid] <= x.
RECURSIVE BisectRightLoop(_, _, _, _)
BisectRightLoop(a, x, lo, hi) ==
    IF lo < hi
    THEN LET mid == (lo + hi) \div 2
         IN  IF a[mid + 1] <= x THEN BisectRightLoop(a, x, mid + 1, hi)
                                ELSE BisectRightLoop(a, x, lo, mid)
    ELSE lo

bisect_right(a, x) == BisectRightLoop(a, x, 0, Len(a))

bisect_left(a, x) == BisectLoop(a, x, 0, Len(a))

(***************************************************************************)
(* RelocationMap                                                            *)
(***************************************************************************)
\* RelocationMap.__init__: the entries as supplied, and their offsets.
RelocationMap(iterable) ==
    [ _items |-> iterable,
      _keys  |-> [k \in 1..Len(iterable) |-> iterable[k].r_offset] ]

\* slice_range without the test of the upper bound against the table length.
slice_range_no_upper_test(self, base, size) ==
    IF size <= 0 THEN << >>
    ELSE LET i == bisect_left(self._keys, base)
             j == bisect_left(self._keys, base + size)
         IN  IF i = 0 \/ i >= Len(self._keys) THEN << >>
             ELSE IF i > j THEN << >>
             ELSE GetSlice(self._items, i, j)

\* RelocationMap.slice_range
slice_range(self, base, size) ==
    IF size <= 0 THEN << >>
    ELSE LET i == bisect_left(self._keys, base)
             j == bisect_left(self._keys, base + size)
         IN  IF i = 0 \/ i >= Len(self._keys) THEN << >>
             ELSE IF j = 0 \/ j >= Len(self._keys) THEN << >>
             ELSE IF i > j THEN << >>
             ELSE GetSlice(self._items, i, j)

(***************************************************************************)
(* match_symbol_reloc: mask, pattern, search                                *)
(***************************************************************************)
\* The loop over the relocations of the range: each writes [1, 1, 1, 1] by
\* slice assignment at rela_offset .. rela_offset + 4.
RECURSIVE MarkRelas(_, _, _, _)
MarkRelas(m, relas, k, func_value_ptr) ==
    IF k > Len(relas) THEN m
    ELSE LET rela_offset == relas[k].r_offset - func_value_ptr
         IN  MarkRelas(SetSlice(m, rela_offset, rela_offset + 4, <<1, 1, 1, 1>>),
                       relas, k + 1, func_value_ptr)

\* The mask with only the first relocation of the range marked.
BuildMaskFirstOnly(relas, func_value_ptr, func_value_size) ==
    MarkRelas([k \in 1..func_value_size |-> 0],
              IF relas = << >> THEN relas ELSE << relas[1] >>, 1, func_value_ptr)

BuildMask(relas, func_value_ptr, func_value_size) ==
    MarkRelas([k \in 1..func_value_size |-> 0], relas, 1, func_value_ptr)

\* b"\\x%02x" % byte : the two hexadecimal digits of the byte.
HexEscape(byte) == [op |-> "x", hi |-> byte \div 16, lo |-> byte % 16]

Dot == [op |-> ".", hi |-> 0, lo |-> 0]

\* sym_value[i] is read for every mask position holding 0; past the end of
\* sym_value that read raises IndexError.
RegexRaises(m, sym_value) ==
    \E k \in 1..Len(m) : m[k] = 0 /\ k > Len(sym_value)

BuildRegex(m, sym_value) ==
    [k \in 1..Len(m) |-> IF m[k] = 0 THEN HexEscape(sym_value[k]) ELSE Dot]

\* One pattern element against one byte, as the re module reads it: \xHH is
\* the byte with that code, "." (no DOTALL flag) any byte but newline.
ElemMatches(e, byte) ==
    IF e.op = "x" THEN byte = e.hi * 16 + e.lo ELSE byte /= 10

\* The pattern matches the haystack at 0-based position p.
MatchesAt(rx, hay, p) ==
    /\ p + Len(rx) <= Len(hay)
    /\ \A k \in 1..Len(rx) : ElemMatches(rx[k], hay[p + k])

\* A search that returns the rightmost match start instead of the leftmost.
re_search_rightmost(rx, hay) ==
    LET starts == {p \in 0..Len(hay) : MatchesAt(rx, hay, p)}
    IN  IF starts = {} THEN -1
        ELSE CHOOSE p \in starts : \A q \in starts : p >= q

\* re.search(regex, haystack): the leftmost match start, or -1 for None.
re_search(rx, hay) ==
    LET starts == {p \in 0..Len(hay) : MatchesAt(rx, hay, p)}
    IN  IF starts = {} THEN -1
        ELSE CHOOSE p \in starts : \A q \in starts : p <= q

Line(tag, k, offset, size) == [tag |-> tag, sym |-> k, offset |-> offset, size |-> size]

\* Name, kind and size filter of match_symbol_reloc.
Attempted(sym, minm) ==
    /\ sym.named
    /\ sym.type = "STT_FUNC"
    /\ sym.st_size >= minm

\* sym_value = text[func_value_ptr : func_value_ptr + func_value_size]
SymValue(sym, text) == GetSlice(text, sym.st_value, sym.st_value + sym.st_size)

\* A shortfall test that only notices an empty extraction.
IsShortOnlyEmpty(sym_value, func_value_size) ==
    Len(sym_value) = 0 /\ func_value_size > 0

\* len(sym_value) < func_value_size
IsShort(sym_value, func_value_size) == Len(sym_value) < func_value_size

\* match_symbol_reloc(haystack, sym, text, strtab, relas_map) for the k-th
\* symbol: the lines it prints, whether it raises, and its locals.
match_symbol_reloc(hay, base_addr, minm, sym, k, text, rmap) ==
    LET sym_value == SymValue(sym, text)
        relas     == slice_range(rmap, sym.st_value, sym.st_size)
        m         == BuildMask(relas, sym.st_value, sym.st_size)
        none      == [lines |-> << >>, raised |-> FALSE, built |-> FALSE,
                      mask |-> << >>, regex |-> << >>, sliced |-> << >>]
    IN  IF ~Attempted(sym, minm) THEN none
        ELSE IF IsShort(sym_value, sym.st_size)
        THEN [none EXCEPT !.lines = << Line("!", k, 0, 0) >>]
        ELSE IF RegexRaises(m, sym_value)
        THEN [none EXCEPT !.raised = TRUE, !.built = TRUE, !.mask = m, !.sliced = relas]
        ELSE LET rx    == BuildRegex(m, sym_value)
                 start == re_search(rx, hay)
             IN  [lines  |-> IF start >= 0
                             THEN << Line("+", k, base_addr + start, sym.st_size) >>
                             ELSE << Line("-", k, 0, 0) >>,
                  raised |-> FALSE, built |-> TRUE,
                  mask |-> m, regex |-> rx, sliced |-> relas]

(***************************************************************************)
(* match_elf                                                                *)
(***************************************************************************)
EmptyMap == RelocationMap(<< >>)

\* match_elf up to the symbol loop.  Without a .text section it returns.  In
\* no-reloc mode it calls match_symbol_static with the name sym, which is
\* bound nowhere: NameError.
MatchElf ==
    /\ pc = "start"
    /\ IF ~elf.has_text
       THEN pc' = "done" /\ relas_map' = relas_map
       ELSE IF no_reloc
       THEN pc' = "raised" /\ relas_map' = relas_map
       ELSE pc' = "loop" /\ relas_map' = RelocationMap(elf.textrela)
    /\ UNCHANGED << args, idx, output, mask, regex, sliced, last_sym >>

\* One iteration of the symbol loop: match_symbol_reloc on the next symbol.
MatchSymbolReloc ==
    /\ pc = "loop"
    /\ idx <= Len(elf.symtab)
    /\ LET r == match_symbol_reloc(haystack, haystack_base, min_match,
                                   elf.symtab[idx], idx, elf.text, relas_map)
       IN  /\ output' = output \o r.lines
           /\ pc' = IF r.raised THEN "raised" ELSE "loop"
           /\ idx' = IF r.raised THEN idx ELSE idx + 1
           /\ mask' = IF r.built THEN r.mask ELSE mask
           /\ regex' = IF r.built THEN r.regex ELSE regex
           /\ sliced' = IF r.built THEN r.sliced ELSE sliced
           /\ last_sym' = IF r.built THEN idx ELSE last_sym
    /\ UNCHANGED << args, relas_map >>

\* The symbol table is exhausted: match_elf returns.
MatchElfReturn ==
    /\ pc = "loop"
    /\ idx > Len(elf.symtab)
    /\ pc' = "done"
    /\ UNCHANGED << args, relas_map, idx, output, mask, regex, sliced, last_sym >>

Next == MatchElf \/ MatchSymbolReloc \/ MatchElfReturn

(***************************************************************************)
(* Inputs.  A relocation entry keeps its position in the table as r_info;  *)
(* a symbol has a name or not, a kind, st_value and st_size.  A missing     *)
(* .rela.text section gives the same map as an empty one.                   *)
(***************************************************************************)
Entries(offs) == [k \in 1..Len(offs) |-> [r_offset |-> offs[k], r_info |-> k]]

Sym(named, type, value, size) ==
    [named |-> named, type |-> type, st_value |-> value, st_size |-> size]

Elf(has_text, text, symtab, textrela) ==
    [has_text |-> has_text, text |-> text, symtab |-> symtab, textrela |-> textrela]

InitRun ==
    /\ pc = "start"
    /\ idx = 1
    /\ output = << >>
    /\ relas_map = EmptyMap
    /\ mask = << >>
    /\ regex = << >>
    /\ sliced = << >>
    /\ last_sym = 0

\* Run specification: several symbols per object, both modes.
RunTexts == {<<65, 65, 10, 65, 65, 10>>, <<10, 65, 65, 65, 65, 65>>}

RunSyms ==
    {Sym(TRUE, "STT_FUNC", 1, 3), Sym(TRUE, "STT_FUNC", 1, 4),
     Sym(TRUE, "STT_FUNC", 1, 5), Sym(TRUE, "STT_FUNC", 4, 4),
     Sym(TRUE, "STT_FUNC", 7, 5), Sym(FALSE, "STT_FUNC", 1, 4),
     Sym(TRUE, "STT_OBJECT", 1, 4)}

RunRelas == {<< >>, <<0, 1, 9>>, <<0, 2, 9>>, <<0, 3, 4, 9>>, <<0, 0, 1, 0, 9>>}

Init ==
    /\ InitRun
    /\ haystack \in SeqsUpTo(ByteVals, MaxHay)
    /\ haystack_base = 32768
    /\ min_match = 4
    /\ match = 3
    /\ no_reloc \in BOOLEAN
    /\ elf \in {Elf(FALSE, << >>, st, Entries(rl)) :
                    st \in SeqsUpTo(RunSyms, 2), rl \in {<< >>}}
            \cup {Elf(TRUE, tx, st, Entries(rl)) :
                    tx \in RunTexts, st \in SeqsUpTo(RunSyms, 2), rl \in RunRelas}

Spec == Init /\ [][Next]_vars

\* Index specification: every relocation table up to the bounds, one symbol.
IdxText == [k \in 1..(MaxOff + 2) |-> 65]

InitIdx ==
    /\ InitRun
    /\ haystack = IdxText
    /\ haystack_base = 0
    /\ min_match = 4
    /\ match = 3
    /\ no_reloc = FALSE
    /\ elf \in {Elf(TRUE, IdxText, << Sym(TRUE, "STT_FUNC", v, s) >>, Entries(rl)) :
                    v \in 0..1, s \in 4..5, rl \in SeqsUpTo(0..MaxOff, MaxRelas)}

SpecIdx == InitIdx /\ [][Next]_vars

\* Round-trip specification: a body of BodySize bytes at st_value 0 or 1 of
\* the text, no relocation inside it, embedded unchanged in the haystack
\* between two paddings; min_match is the default.
Periodic(seed) == [k \in 1..BodySize |-> seed[((k - 1) % Len(seed)) + 1]]

OneOff(pos) == [k \in 1..BodySize |-> IF k = pos THEN 10 ELSE 65]

Bodies ==
    {Periodic(seed) : seed \in SeqsUpTo(ByteVals, 3) \ {<< >>}}
        \cup {OneOff(pos) : pos \in 1..BodySize}

RTRelas == {<< >>, <<0, BodySize + 1, BodySize + 9>>, <<BodySize + 9, 0, BodySize + 1>>}

InitRT ==
    /\ InitRun
    /\ haystack_base \in HaystackBases
    /\ min_match = DefaultMinMatch
    /\ match = DefaultMatch
    /\ no_reloc = FALSE
    /\ \E body \in Bodies, pre \in SeqsUpTo(ByteVals, MaxPad),
          post \in SeqsUpTo(ByteVals, 1), v \in 0..1, rl \in RTRelas :
          /\ haystack = pre \o body \o post
          /\ elf = Elf(TRUE, SubSeq(<<65>>, 1, v) \o body,
                       << Sym(TRUE, "STT_FUNC", v, BodySize) >>, Entries(rl))

SpecRT == InitRT /\ [][Next]_vars

(***************************************************************************)
(* Properties                                                               *)
(***************************************************************************)
IsSorted(a) == \A k \in 1..(Len(a) - 1) : a[k] <= a[k + 1]

\* match_elf has built relas_map.
MapBuilt == pc /= "start" /\ elf.has_text /\ ~no_reloc

\* For an offset-sorted array: the 0-based first index whose value is >= x.
FirstAtLeast(a, x) == Cardinality({k \in 1..Len(a) : a[k] < x})

QueryBases == 0..(MaxOff + 1)
QuerySizes == 1..(MaxOff + 2)

InRangeOffset(off, base, size) == base <= off /\ off < base + size

NumTrue(m) == Cardinality({k \in 1..Len(m) : m[k] = 1})

RECURSIVE SumOver(_, _)
SumOver(f, k) == IF k = 0 THEN 0 ELSE f[k] + SumOver(f, k - 1)

Min(a, b) == IF a < b THEN a ELSE b

\* The symbol of the last call that built a mask, and its locals.
LastSym == elf.symtab[last_sym]
LastLocals == [k \in 1..Len(sliced) |-> sliced[k].r_offset - LastSym.st_value]

\* C1: the mask built for a symbol has exactly the symbol's declared size,
\* whatever relocations slice_range returned for it.
C1_MaskLength ==
    last_sym > 0 => Len(mask) = LastSym.st_size

\* C2: the pattern is as long as the symbol's bytes, and it matches a window
\* of the haystack exactly when every position whose mask bit is 0 holds the
\* symbol's byte; positions whose mask bit is 1 accept every byte value.
\* Stated for the masks that have the symbol's size.
C2_PatternMatches ==
    (last_sym > 0 /\ pc /= "raised" /\ Len(mask) = LastSym.st_size) =>
        LET sym_value == SymValue(LastSym, elf.text)
            size      == Len(sym_value)
        IN  /\ Len(regex) = size
            /\ \A p \in 0..(Len(haystack) - size) :
                   MatchesAt(regex, haystack, p)
                       <=> \A k \in 1..size :
                               mask[k] = 0 => haystack[p + k] = sym_value[k]

\* The 0-based offsets at which needle occurs in hay.
Occurrences(needle, hay) ==
    {p \in 0..(Len(hay) - Len(needle)) : SubSeq(hay, p + 1, p + Len(needle)) = needle}

FirstOf(S) == CHOOSE p \in S : \A q \in S : p <= q

\* C3: in no-reloc mode the run does not fail, and every symbol passing the
\* filter, with its body whole in the text, whose first min(size, match)
\* bytes occur in the haystack is reported Found at haystack_base plus the
\* offset of the occurrence.
C3_NoRelocPrefixFound ==
    (no_reloc /\ elf.has_text /\ pc \in {"done", "raised"}) =>
        \A k \in 1..Len(elf.symtab) :
            LET body   == SymValue(elf.symtab[k], elf.text)
                needle == GetSlice(body, 0, match)
                occ    == Occurrences(needle, haystack)
            IN  (/\ Attempted(elf.symtab[k], min_match)
                 /\ Len(body) = elf.symtab[k].st_size
                 /\ occ /= {}) =>
                    /\ pc = "done"
                    /\ \E n \in 1..Len(output), p \in occ :
                           output[n] = Line("+", k, haystack_base + p, Len(needle))

\* C4: a body of BodySize bytes with no relocation in its range, embedded
\* unchanged in the haystack, is reported Found once the object is scanned,
\* at haystack_base plus the first offset where it occurs, with its size.
C4_RoundTrip ==
    (pc = "done" /\ Len(elf.symtab) = 1) =>
        LET sym == elf.symtab[1]
            occ == Occurrences(SymValue(sym, elf.text), haystack)
        IN  (/\ Attempted(sym, min_match)
             /\ sym.st_size = BodySize
             /\ Len(SymValue(sym, elf.text)) = BodySize
             /\ \A k \in 1..Len(elf.textrela) :
                    ~InRangeOffset(elf.textrela[k].r_offset, sym.st_value, sym.st_size)
             /\ occ /= {})
            => output = << Line("+", 1, haystack_base + FirstOf(occ), BodySize) >>

\* C4 witness: the body was found at an offset above 0 of a haystack that
\* goes on after the body.
C4_Witness ==
    /\ pc = "done"
    /\ Len(output) = 1
    /\ output[1].tag = "+"
    /\ output[1].size = BodySize
    /\ output[1].offset > haystack_base
    /\ Len(haystack) > output[1].offset - haystack_base + BodySize
    /\ elf.textrela /= << >>

\* C5: once built, the map's keys are ascending, its entries are the input's
\* entries in ascending offset order with equal offsets in input order, and
\* each key is the offset of the entry at the same position.
C5_SortedIndex ==
    MapBuilt =>
        /\ IsSorted(relas_map._keys)
        /\ Len(relas_map._keys) = Len(relas_map._items)
        /\ \A k \in 1..Len(relas_map._items) :
               relas_map._keys[k] = relas_map._items[k].r_offset
        /\ \A k \in 1..(Len(relas_map._items) - 1) :
               relas_map._items[k].r_offset = relas_map._items[k + 1].r_offset
                   => relas_map._items[k].r_info < relas_map._items[k + 1].r_info
        /\ {relas_map._items[k] : k \in 1..Len(relas_map._items)}
               = {elf.textrela[k] : k \in 1..Len(elf.textrela)}

\* C6 as stated: on a sorted index a query of positive size is empty whenever
\* its lower bound is 0 or its upper bound is n - 1 or more.
C6_EmptyFromLastIndex ==
    (MapBuilt /\ IsSorted(relas_map._keys)) =>
        \A base \in QueryBases, size \in QuerySizes :
            (\/ FirstAtLeast(relas_map._keys, base) = 0
             \/ FirstAtLeast(relas_map._keys, base + size) >= Len(relas_map._keys) - 1)
                => slice_range(relas_map, base, size) = << >>

\* C6 amended: on a sorted index a query of positive size is empty whenever
\* its lower bound is 0 or its upper bound is past the last index, that is n.
C6_EmptyPastLastIndex ==
    (MapBuilt /\ IsSorted(relas_map._keys)) =>
        \A base \in QueryBases, size \in QuerySizes :
            (\/ FirstAtLeast(relas_map._keys, base) = 0
             \/ FirstAtLeast(relas_map._keys, base + size) >= Len(relas_map._keys))
                => slice_range(relas_map, base, size) = << >>

\* C6 witness: a sorted index and a query whose lower bound is past index 0,
\* whose upper bound is n and whose range holds an entry: the answer is empty.
C6_Witness ==
    /\ MapBuilt
    /\ IsSorted(relas_map._keys)
    /\ \E base \in QueryBases, size \in QuerySizes :
           /\ FirstAtLeast(relas_map._keys, base) >= 1
           /\ FirstAtLeast(relas_map._keys, base + size) = Len(relas_map._keys)
           /\ \E k \in 1..Len(relas_map._keys) :
                  InRangeOffset(relas_map._keys[k], base, size)
           /\ slice_range(relas_map, base, size) = << >>

\* C7: on a sorted index every entry a query of positive size returns has
\* its offset in [base, base + size), the entries come in index order, and a
\* non-empty answer holds every entry of the index with its offset in range.
C7_SliceInRange ==
    (MapBuilt /\ IsSorted(relas_map._keys)) =>
        \A base \in QueryBases, size \in QuerySizes :
            LET r == slice_range(relas_map, base, size)
            IN  /\ \A k \in 1..Len(r) : InRangeOffset(r[k].r_offset, base, size)
                /\ \A k \in 1..(Len(r) - 1) : r[k + 1].r_info = r[k].r_info + 1
                /\ r /= << >> =>
                       {r[k] : k \in 1..Len(r)}
                           = {relas_map._items[k] : k \in
                                 {n \in 1..Len(relas_map._items) :
                                     InRangeOffset(relas_map._keys[n], base, size)}}

\* C7 witness: a sorted index and a query answered with two or more entries,
\* one of them at the very base of the range.
C7_Witness ==
    /\ MapBuilt
    /\ IsSorted(relas_map._keys)
    /\ \E base \in QueryBases, size \in QuerySizes :
           LET r == slice_range(relas_map, base, size)
           IN  Len(r) >= 2 /\ r[1].r_offset = base

\* The relocations of the whole table with their offset in the symbol's range.
Overlapping(sym) ==
    {k \in 1..Len(elf.textrela) :
        InRangeOffset(elf.textrela[k].r_offset, sym.st_value, sym.st_size)}

ClippedWidth(local, size) == Min(4, size - local)

SlicedInRange ==
    \A k \in 1..Len(sliced) :
        InRangeOffset(sliced[k].r_offset, LastSym.st_value, LastSym.st_size)

SlicedSpaced ==
    \A k, n \in 1..Len(sliced) :
        k < n => \/ sliced[k].r_offset + 4 <= sliced[n].r_offset
                 \/ sliced[n].r_offset + 4 <= sliced[k].r_offset

NextOverflows ==
    /\ pc = "loop"
    /\ idx <= Len(elf.symtab)
    /\ Attempted(elf.symtab[idx], min_match)
    /\ elf.symtab[idx].st_value + elf.symtab[idx].st_size > Len(elf.text)

AttemptedPositions ==
    SelectSeq([k \in 1..Len(elf.symtab) |-> k],
              LAMBDA k : Attempted(elf.symtab[k], min_match))

\* C10: when the scan of an object with a text section ends, in either mode,
\* the status lines are one per symbol passing the filter, in symbol-table
\* order, each Found, NotFound or Malformed, and nothing else.
C10_OneLinePerAttempted ==
    (elf.has_text /\ pc \in {"done", "raised"}) =>
        /\ [n \in 1..Len(output) |-> output[n].sym] = AttemptedPositions
        /\ \A n \in 1..Len(output) : output[n].tag \in {"+", "-", "!"}

====
